---- MODULE Spec2Model ----
(***************************************************************************)
(* Model of src/data/processing_func.py: the tiered spatial join of        *)
(* store_jps, the geometry built by extract_geo_sections and               *)
(* extract_geo_jams, and the direction classifiers get_direction and       *)
(* get_main_direction.                                                     *)
(*                                                                         *)
(* Units.  Geographic coordinates are integers counting 0.00001 degree;    *)
(* the program holds each as the binary double nearest to the decimal, and *)
(* get_direction subtracts and compares those doubles (see "Binary         *)
(* doubles" below).                                                        *)
(* UTM coordinates are integers counting metres.  proj is the transverse   *)
(* Mercator projection of UTM zone 22 south (WGS84) to first order about   *)
(* the point (-48.84550, -26.30450), whose image is (715089.42747,         *)
(* 7088801.37030): 0.00001 degree of longitude is 0.99861 m of easting and *)
(* -0.01665 m of northing, 0.00001 degree of latitude 0.01847 m of easting *)
(* and 1.10796 m of northing; the result is rounded to the metre.  Within  *)
(* 100 m of the point the first-order terms are exact to the millimetre.   *)
(*                                                                         *)
(* Geometry.  The polygon LineString(coords).buffer(distance) is the set   *)
(* of points of the plane at Euclidean distance <= distance of the         *)
(* polyline; a geometry column holds it as the record (coords, distance,   *)
(* crs).  Distances between points and segments are compared exactly, in   *)
(* integer arithmetic: two polygons intersect when their polylines are no  *)
(* further apart than the sum of the distances, and a polygon lies inside  *)
(* another when each of its points with whole-metre coordinates is a point *)
(* of the other.  to_crs changes the coordinate system of the active       *)
(* geometry column only; it is a bijection of the plane, so two polygons   *)
(* of the same system are related as they are in metres, and two polygons  *)
(* of different systems (degrees against metres) have no point in common.  *)
(***************************************************************************)
EXTENDS Integers, Sequences, FiniteSets

VARIABLES
    Jam,                          \* table Jam: sequence of rows (insertion order)
    Section,                      \* table Section: sequence of rows
    batch_size,                   \* argument of store_jps
    pc,                           \* position inside store_jps
    error,                        \* where an uncaught exception was raised
    geo_sections,                 \* [rows, geometry]: the section GeoDataFrame
    total_rows, number_batches,   \* lines 170-171
    i,                            \* loop variable of line 173
    geo_jams,                     \* [rows, geometry]: the page's GeoDataFrame
    jams_per_section_contains,
    ids_not_located_contains,
    jams_left_from_contains,
    jams_per_section_within,
    ids_not_located_within,
    jams_left_from_within,
    jams_per_section_intersects,
    jams_per_section,
    JamPerSection                 \* output table: sequence of rows, appended

vars == <<Jam, Section, batch_size, pc, error, geo_sections, total_rows,
          number_batches, i, geo_jams, jams_per_section_contains,
          ids_not_located_contains, jams_left_from_contains,
          jams_per_section_within, ids_not_located_within,
          jams_left_from_within, jams_per_section_intersects,
          jams_per_section, JamPerSection>>

(***************************************************************************)
(* Bounds of the model.                                                    *)
(***************************************************************************)
MaxJams == 2
MaxBatch == 2

\* NaN / NULL of a numeric column (SctnId of an unmatched left-join row).
NaN == -1

Abs(n) == IF n < 0 THEN -n ELSE n
Min2(a, b) == IF a <= b THEN a ELSE b
Max2(a, b) == IF a >= b THEN a ELSE b
Min3(a, b, c) == Min2(a, Min2(b, c))
Max3(a, b, c) == Max2(a, Max2(b, c))
SetMin(S) == CHOOSE m \in S : \A n \in S : m <= n
SetMax(S) == CHOOSE m \in S : \A n \in S : m >= n
Sign(n) == IF n > 0 THEN 1 ELSE IF n < 0 THEN -1 ELSE 0

\* n / d rounded to the nearest integer (d > 0)
Round(n, d) == (2 * n + d) \div (2 * d)

(***************************************************************************)
(* Projection.                                                             *)
(***************************************************************************)
\* pyproj Proj("+proj=utm +zone=22J, +south +ellps=WGS84 ...")(lon, lat)
proj(lon, lat) ==
    LET dlon == lon + 4884550
        dlat == lat + 2630450
    IN <<715089 + Round(42747 + 99861 * dlon + 1847 * dlat, 100000),
         7088801 + Round(37030 - 1665 * dlon + 110796 * dlat, 100000)>>

lon_lat_to_UTM(l) == [k \in 1..Len(l) |-> proj(l[k][1], l[k][2])]

(***************************************************************************)
(* Geometry.                                                               *)
(***************************************************************************)
Sub(p, q) == <<p[1] - q[1], p[2] - q[2]>>
Dot(u, v) == u[1] * v[1] + u[2] * v[2]
Cross(u, v) == u[1] * v[2] - u[2] * v[1]

\* The distance from point p to the segment a-b is at most r.
NearSegment(p, a, b, r) ==
    LET ab == Sub(b, a)
        ap == Sub(p, a)
        bp == Sub(p, b)
        t == Dot(ap, ab)
        l2 == Dot(ab, ab)
    IN IF t <= 0 THEN Dot(ap, ap) <= r * r
       ELSE IF t >= l2 THEN Dot(bp, bp) <= r * r
       ELSE Cross(ab, ap) * Cross(ab, ap) <= r * r * l2

\* The segments a-b and c-d cross in a point interior to both.
SegmentsCross(a, b, c, d) ==
    /\ Sign(Cross(Sub(b, a), Sub(c, a))) * Sign(Cross(Sub(b, a), Sub(d, a))) < 0
    /\ Sign(Cross(Sub(d, c), Sub(a, c))) * Sign(Cross(Sub(d, c), Sub(b, c))) < 0

\* The distance between the segments a-b and c-d is at most r: they cross,
\* or an end point of one is within r of the other.
SegmentsNear(a, b, c, d, r) ==
    \/ SegmentsCross(a, b, c, d)
    \/ NearSegment(a, c, d, r) \/ NearSegment(b, c, d, r)
    \/ NearSegment(c, a, b, r) \/ NearSegment(d, a, b, r)

\* The polygon LineString(coords).buffer(distance), in the coordinate
\* system the coordinates are given in (UTM metres).
buffer(coords, distance) == [coords |-> coords, distance |-> distance, crs |-> "utm"]

\* The polygon without its coordinate system.
Metric(g) == [coords |-> g.coords, distance |-> g.distance]

\* Point p is a point of polygon g.
covers(g, p) ==
    \E k \in 1..(Len(g.coords) - 1) :
        NearSegment(p, g.coords[k], g.coords[k + 1], g.distance)

\* Polygons a and b have a point in common.
Meets(a, b) ==
    \E k \in 1..(Len(a.coords) - 1), n \in 1..(Len(b.coords) - 1) :
        SegmentsNear(a.coords[k], a.coords[k + 1], b.coords[n], b.coords[n + 1],
                     a.distance + b.distance)

\* Every point of polygon b with whole-metre coordinates is a point of a.
InsideSampled(b, a) ==
    LET xs == {b.coords[k][1] : k \in 1..Len(b.coords)}
        ys == {b.coords[k][2] : k \in 1..Len(b.coords)}
    IN \A px \in (SetMin(xs) - b.distance)..(SetMax(xs) + b.distance) :
          \A py \in (SetMin(ys) - b.distance)..(SetMax(ys) + b.distance) :
             covers(b, <<px, py>>) => covers(a, <<px, py>>)

\* GeoDataFrame.to_crs(crs): re-projects the active geometry column.
to_crs(frame, crs) ==
    [frame EXCEPT !.rows =
        [k \in 1..Len(frame.rows) |->
            [frame.rows[k] EXCEPT ![frame.geometry] = [@ EXCEPT !.crs = crs]]]]

(***************************************************************************)
(* Binary doubles.  A coordinate of n * 0.00001 degree is held as the      *)
(* double nearest to it, with a 53-bit significand.  For the two ends of   *)
(* one line, which lie within a factor two of each other, the subtraction  *)
(* of the doubles is exact, so a difference is the decimal difference plus *)
(* the difference of the two representation errors.                        *)
(***************************************************************************)
RECURSIVE Pow2(_)
Pow2(k) == IF k = 0 THEN 1 ELSE 2 * Pow2(k - 1)

\* The exponent j with 2^j <= |n| / 100000 < 2^(j+1), for n # 0.
Binade(n) ==
    IF Abs(n) >= 100000
    THEN CHOOSE j \in 0..13 :
            Pow2(j) * 100000 <= Abs(n) /\ Abs(n) < Pow2(j + 1) * 100000
    ELSE 0 - (CHOOSE m \in 1..17 :
                 Abs(n) * Pow2(m) >= 100000 /\ Abs(n) * Pow2(m - 1) < 100000)

\* r * 2^k modulo 100000
RECURSIVE DoubleMod(_, _)
DoubleMod(r, k) == IF k = 0 THEN r ELSE DoubleMod((2 * r) % 100000, k - 1)

\* float(n / 100000) - n / 100000, counted in units of
\* 2^(Binade(n) - 52) / 100000: the double is the multiple of
\* 2^(Binade(n) - 52) nearest to the decimal.
FloatError(n) ==
    IF n = 0 THEN 0
    ELSE LET r == DoubleMod(Abs(n) % 100000, 52 - Binade(n))
         IN Sign(n) * (IF r < 50000 THEN 0 - r ELSE 100000 - r)

\* The sign of the sum of c * 2^j over the terms <<c, j>>, taken from
\* exponent e down to exponent lo; acc is the sum so far in units of 2^e.
RECURSIVE SignOfSum(_, _, _, _)
SignOfSum(terms, e, lo, acc) ==
    LET here == {k \in 1..Len(terms) : terms[k][2] = e}
        add(k) == IF k \in here THEN terms[k][1] ELSE 0
        now == 2 * acc + add(1) + add(2) + add(3) + add(4)
    IN IF e = lo \/ Abs(now) > 400000 THEN Sign(now)
       ELSE SignOfSum(terms, e - 1, lo, now)

\* The sign of abs(y_end - y_start) - abs(x_end - x_start) as the program
\* computes it on doubles.
CompareAbsDelta(y_start, y_end, x_start, x_end) ==
    LET dy == y_end - y_start
        dx == x_end - x_start
        term(n, s) == IF n = 0 THEN <<0, 0>> ELSE <<s * FloatError(n), Binade(n)>>
        terms == <<term(y_end, Sign(dy)), term(y_start, 0 - Sign(dy)),
                   term(x_end, 0 - Sign(dx)), term(x_start, Sign(dx))>>
        es == {terms[k][2] : k \in 1..4}
    IN IF Abs(dy) # Abs(dx) THEN Sign(Abs(dy) - Abs(dx))
       ELSE IF dy = 0 THEN 0
       ELSE SignOfSum(terms, SetMax(es), SetMin(es), 0)

(***************************************************************************)
(* Direction classifiers.                                                  *)
(***************************************************************************)
\* A nullable JSON column value: SQL NULL (None) or a list of {x, y} dicts.
SqlNull == [null |-> TRUE, value |-> <<>>]
Json(v) == [null |-> FALSE, value |-> v]

get_direction_ge(coord_list) ==
    IF coord_list.null
    THEN [raised |-> FALSE, LonDirection |-> "None", LatDirection |-> "None",
          MajorDirection |-> "NaN"]
    ELSE LET l == coord_list.value
             num_coords == Len(l)
         IN IF num_coords = 0
            THEN [raised |-> TRUE, LonDirection |-> "None", LatDirection |-> "None",
                  MajorDirection |-> "NaN"]
            ELSE LET delta_y == l[num_coords].y - l[1].y
                     delta_x == l[num_coords].x - l[1].x
                 IN [raised |-> FALSE,
                     LonDirection |-> IF delta_x >= 0 THEN "Leste" ELSE "Oeste",
                     LatDirection |-> IF delta_y >= 0 THEN "Norte" ELSE "Sul",
                     MajorDirection |->
                        IF CompareAbsDelta(l[1].y, l[num_coords].y,
                                           l[1].x, l[num_coords].x) >= 0
                        THEN "Norte/Sul" ELSE "Leste/Oeste"]

\* get_direction: len(None) raises inside the try and gives [None, None];
\* coord_list[0] of an empty list raises IndexError outside the try.  The
\* deltas are differences of doubles: their signs are those of the decimal
\* differences, abs(delta_y) > abs(delta_x) is decided by CompareAbsDelta.
get_direction(coord_list) ==
    IF coord_list.null
    THEN [raised |-> FALSE, LonDirection |-> "None", LatDirection |-> "None",
          MajorDirection |-> "NaN"]
    ELSE LET l == coord_list.value
             num_coords == Len(l)
         IN IF num_coords = 0
            THEN [raised |-> TRUE, LonDirection |-> "None", LatDirection |-> "None",
                  MajorDirection |-> "NaN"]
            ELSE LET y_start == l[1].y
                     y_end == l[num_coords].y
                     delta_y == y_end - y_start
                     x_start == l[1].x
                     x_end == l[num_coords].x
                     delta_x == x_end - x_start
                 IN [raised |-> FALSE,
                     LonDirection |-> IF delta_x >= 0 THEN "Leste" ELSE "Oeste",
                     LatDirection |-> IF delta_y >= 0 THEN "Norte" ELSE "Sul",
                     MajorDirection |->
                        IF CompareAbsDelta(y_start, y_end, x_start, x_end) > 0
                        THEN "Norte/Sul" ELSE "Leste/Oeste"]

\* extract_geo_sections.get_main_direction, on a row with a bounding box
get_main_direction(x) ==
    LET delta_x == x.MaxX - x.MinX
        delta_y == x.MaxY - x.MinY
    IN IF delta_y >= delta_x THEN "Norte/Sul" ELSE "Leste/Oeste"

\* store_jps.check_directions
check_directions_none(x) == TRUE
check_directions(x) ==
    IF x.MajorDirection = x.StreetDirection THEN TRUE
    ELSE IF x.MajorDirection = x.SectionDirection THEN TRUE
    ELSE FALSE


(***************************************************************************)
(* GeoDataFrames: [rows |-> sequence of rows, geometry |-> active column]. *)
(***************************************************************************)
set_geometry(frame, col) == [frame EXCEPT !.geometry = col]

\* The bounding box columns MinX, MaxX, MinY, MaxY of a section row.
BoundingBox(x) ==
    [MinX |-> Min3(x.SctnDscCoordxUtmComeco, x.SctnDscCoordxUtmMeio, x.SctnDscCoordxUtmFinal),
     MaxX |-> Max3(x.SctnDscCoordxUtmComeco, x.SctnDscCoordxUtmMeio, x.SctnDscCoordxUtmFinal),
     MinY |-> Min3(x.SctnDscCoordyUtmComeco, x.SctnDscCoordyUtmMeio, x.SctnDscCoordyUtmFinal),
     MaxY |-> Max3(x.SctnDscCoordyUtmComeco, x.SctnDscCoordyUtmMeio, x.SctnDscCoordyUtmFinal)]

\* groupby("SctnDscNome").agg(min/max/min/max), for one street name
StreetBox(df_sections, nome) ==
    LET grp == {k \in 1..Len(df_sections) : df_sections[k].SctnDscNome = nome}
    IN [MinX |-> SetMin({BoundingBox(df_sections[k]).MinX : k \in grp}),
        MaxX |-> SetMax({BoundingBox(df_sections[k]).MaxX : k \in grp}),
        MinY |-> SetMin({BoundingBox(df_sections[k]).MinY : k \in grp}),
        MaxY |-> SetMax({BoundingBox(df_sections[k]).MaxY : k \in grp})]

Street_line_XY(x) ==
    << <<x.SctnDscCoordxUtmComeco, x.SctnDscCoordyUtmComeco>>,
       <<x.SctnDscCoordxUtmMeio, x.SctnDscCoordyUtmMeio>>,
       <<x.SctnDscCoordxUtmFinal, x.SctnDscCoordyUtmFinal>> >>

\* The frame is built with section_LineString active and then re-projected:
\* section_LineString ends in degrees, section_alt_LineString stays in UTM.
extract_geo_sections(df_sections, main_buffer, alt_buffer) ==
    to_crs(
      [rows |-> [k \in 1..Len(df_sections) |->
                LET x == df_sections[k] IN
                [SctnId |-> x.SctnId,
                 SctnDscNome |-> x.SctnDscNome,
                 Street_line_XY |-> Street_line_XY(x),
                 StreetDirection |-> get_main_direction(StreetBox(df_sections, x.SctnDscNome)),
                 SectionDirection |-> get_main_direction(BoundingBox(x)),
                 section_LineString |-> buffer(Street_line_XY(x), main_buffer),
                 section_alt_LineString |-> buffer(Street_line_XY(x), alt_buffer)]],
       geometry |-> "section_LineString"],
      "epsg:4326")

\* line 306: the list of (x, y) tuples of a list of {x, y} dicts
jams_line_list(x) == [k \in 1..Len(x) |-> <<x[k].x, x[k].y>>]

\* ORDER BY "JamDateStart": every order of the table's rows that is
\* ascending in JamDateStart; rows with equal start times come in any order,
\* and each query is free to return a different one.
Orderings(tbl) ==
    {p \in [1..Len(tbl) -> 1..Len(tbl)] :
        /\ \A a, b \in 1..Len(tbl) : a # b => p[a] # p[b]
        /\ \A a, b \in 1..Len(tbl) :
              a < b => tbl[p[a]].JamDateStart <= tbl[p[b]].JamDateStart}

\* jam.select().order_by(jam.c.JamDateStart).offset(skip).limit(limit)
jams_query(tbl, ord, skip, limit) ==
    [k \in 1..(Min2(Len(tbl), skip + limit) - Min2(Len(tbl), skip)) |-> tbl[ord[skip + k]]]

\* extract_geo_jams on the rows the query returned.  raised: an uncaught
\* exception: iterating None (line 306), LineString of fewer than 2 points
\* (line 308), get_direction of an empty list (line 310).  The frame is
\* built with jam_LineString active and then re-projected: jam_LineString
\* ends in degrees, jam_alt_LineString stays in UTM.
extract_geo_jams(df_jams, main_buffer, alt_buffer) ==
    IF \E k \in 1..Len(df_jams) :
          \/ df_jams[k].JamDscCoordinatesLonLat.null
          \/ Len(df_jams[k].JamDscCoordinatesLonLat.value) < 2
          \/ get_direction(df_jams[k].JamDscCoordinatesLonLat).raised
    THEN [raised |-> TRUE, rows |-> <<>>, geometry |-> "jam_LineString"]
    ELSE LET frame ==
               to_crs(
                 [rows |-> [k \in 1..Len(df_jams) |->
                    LET x == df_jams[k]
                        jams_line_UTM ==
                            lon_lat_to_UTM(jams_line_list(x.JamDscCoordinatesLonLat.value))
                        d == get_direction(x.JamDscCoordinatesLonLat)
                    IN [JamId |-> x.JamId,
                        JamDateStart |-> x.JamDateStart,
                        JamUuid |-> x.JamUuid,
                        JamDscCoordinatesLonLat |-> x.JamDscCoordinatesLonLat,
                        jam_LineString |-> buffer(jams_line_UTM, main_buffer),
                        jam_alt_LineString |-> buffer(jams_line_UTM, alt_buffer),
                        LonDirection |-> d.LonDirection,
                        LatDirection |-> d.LatDirection,
                        MajorDirection |-> d.MajorDirection]],
                  geometry |-> "jam_LineString"],
                 "epsg:4326")
         IN [raised |-> FALSE, rows |-> frame.rows, geometry |-> frame.geometry]

(***************************************************************************)
(* The tables the run starts from.  Section coordinates are UTM metres,    *)
(* jam coordinates geographic, both written as offsets from the point      *)
(* (-48.84550, -26.30450) = (715089, 7088801).                             *)
(***************************************************************************)
Sctn(id, nome, xc, yc, xm, ym, xf, yf) ==
    [SctnId |-> id, SctnDscNome |-> nome,
     SctnDscCoordxUtmComeco |-> 715089 + xc, SctnDscCoordyUtmComeco |-> 7088801 + yc,
     SctnDscCoordxUtmMeio |-> 715089 + xm, SctnDscCoordyUtmMeio |-> 7088801 + ym,
     SctnDscCoordxUtmFinal |-> 715089 + xf, SctnDscCoordyUtmFinal |-> 7088801 + yf]

SectionTable ==
    << Sctn(1, "A", 0, 0, 20, 0, 40, 0),
       Sctn(2, "A", 40, 0, 40, 20, 40, 40),
       Sctn(3, "B", 80, 0, 80, 20, 80, 40),
       Sctn(4, "C", 0, 80, 10, 50, 20, 80) >>

P(dlon, dlat) == [x |-> dlon - 4884550, y |-> dlat - 2630450]

JamLines ==
    { Json(<<P(0, 0), P(40, 0), P(40, 40)>>),
      Json(<<P(10, 0), P(20, 0)>>),
      Json(<<P(65, 23), P(95, 23)>>),
      Json(<<P(5, 23), P(15, 23)>>),
      Json(<<P(80, 0), P(80, 36)>>),
      Json(<<P(58, 81), P(67, 90)>>),
      Json(<<P(10, 10)>>),
      Json(<<>>),
      SqlNull }

JamDates == {1, 2}

JamTables ==
    UNION {
      { [k \in 1..n |->
            [JamId |-> k, JamUuid |-> 100 + k, JamDateStart |-> d[k],
             JamDscCoordinatesLonLat |-> c[k]]] :
        d \in [1..n -> JamDates], c \in [1..n -> JamLines] } :
      n \in 0..MaxJams }

(***************************************************************************)
(* The shapely predicates.                                                 *)
(***************************************************************************)
SectionLineCoords ==
    {Street_line_XY(SectionTable[k]) : k \in 1..Len(SectionTable)}

JamLineCoords ==
    {lon_lat_to_UTM(jams_line_list(c.value)) :
        c \in {l \in JamLines : ~l.null /\ Len(l.value) >= 2}}

\* Every polygon the run can build, and the pairs (b, a) with b inside a.
PolygonsOfRun ==
    {[coords |-> c, distance |-> r] :
        c \in SectionLineCoords \cup JamLineCoords, r \in {10, 20}}

InsideTable ==
    {e \in PolygonsOfRun \X PolygonsOfRun : InsideSampled(e[1], e[2])}

\* Polygon b lies inside polygon a.
Inside(b, a) ==
    IF b \in PolygonsOfRun /\ a \in PolygonsOfRun
    THEN <<b, a>> \in InsideTable
    ELSE InsideSampled(b, a)

contains_swapped(a, b) == a.crs = b.crs /\ Inside(Metric(a), Metric(b))
contains(a, b) == a.crs = b.crs /\ Inside(Metric(b), Metric(a))
within(a, b) == contains(b, a)
intersects(a, b) == a.crs = b.crs /\ Meets(Metric(a), Metric(b))

predicate(op, a, b) ==
    CASE op = "contains" -> contains(a, b)
      [] op = "within" -> within(a, b)
      [] op = "intersects" -> intersects(a, b)

(***************************************************************************)
(* gpd.sjoin and the pandas helpers of store_jps.                          *)
(***************************************************************************)
RECURSIVE Flatten(_)
Flatten(ss) == IF ss = <<>> THEN <<>> ELSE Head(ss) \o Flatten(Tail(ss))

JoinedRow(l, r) ==
    [JamId |-> l.JamId, JamDateStart |-> l.JamDateStart, JamUuid |-> l.JamUuid,
     MajorDirection |-> l.MajorDirection,
     SctnId |-> r.SctnId, StreetDirection |-> r.StreetDirection,
     SectionDirection |-> r.SectionDirection]

UnmatchedRow(l) ==
    [JamId |-> l.JamId, JamDateStart |-> l.JamDateStart, JamUuid |-> l.JamUuid,
     MajorDirection |-> l.MajorDirection,
     SctnId |-> NaN, StreetDirection |-> "NaN", SectionDirection |-> "NaN"]

\* gpd.sjoin(left_df, right_df, how, op): one row per pair whose active
\* geometries satisfy op; how="left" keeps an unmatched left row with NaN.
sjoin(left_df, right_df, how, op) ==
    Flatten([k \in 1..Len(left_df.rows) |->
        LET l == left_df.rows[k]
            m == SelectSeq(right_df.rows,
                           LAMBDA r : predicate(op, l[left_df.geometry], r[right_df.geometry]))
        IN IF m = <<>>
           THEN (IF how = "left" THEN <<UnmatchedRow(l)>> ELSE <<>>)
           ELSE [n \in 1..Len(m) |-> JoinedRow(l, m[n])]])

\* df[df["SctnId"].isnull()]["JamId"]
ids_not_located_all(joined) == {joined[k].JamId : k \in 1..Len(joined)}
ids_not_located(joined) ==
    {joined[k].JamId : k \in {n \in 1..Len(joined) : joined[n].SctnId = NaN}}

\* df.dropna(subset=["SctnId"])
dropna(joined) == SelectSeq(joined, LAMBDA x : x.SctnId # NaN)

\* geo_jams.loc[geo_jams["JamId"].isin(ids)]
loc_isin(frame, ids) ==
    [frame EXCEPT !.rows = SelectSeq(frame.rows, LAMBDA x : x.JamId \in ids)]

\* pd.concat([...])[["JamDateStart", "JamUuid", "SctnId"]]
concat_columns(a, b, c) ==
    LET all == a \o b \o c
    IN [k \in 1..Len(all) |->
          [JamDateStart |-> all[k].JamDateStart, JamUuid |-> all[k].JamUuid,
           SctnId |-> all[k].SctnId]]

\* math.ceil(total_rows / batch_size)
ceil_div(a, b) == (a + b - 1) \div b

EmptyFrame(col) == [rows |-> <<>>, geometry |-> col]

Init ==
    /\ Jam \in JamTables
    /\ Section = SectionTable
    /\ batch_size \in 1..MaxBatch
    /\ pc = "start"
    /\ error = "none"
    /\ geo_sections = EmptyFrame("section_LineString")
    /\ total_rows = 0
    /\ number_batches = 0
    /\ i = 0
    /\ geo_jams = EmptyFrame("jam_LineString")
    /\ jams_per_section_contains = <<>>
    /\ ids_not_located_contains = {}
    /\ jams_left_from_contains = EmptyFrame("jam_alt_LineString")
    /\ jams_per_section_within = <<>>
    /\ ids_not_located_within = {}
    /\ jams_left_from_within = EmptyFrame("jam_LineString")
    /\ jams_per_section_intersects = <<>>
    /\ jams_per_section = <<>>
    /\ JamPerSection = <<>>

(***************************************************************************)
(* store_jps, one action per statement group.                              *)
(***************************************************************************)
\* lines 167-173: load the sections, count the jams, enter the loop
LoadSections ==
    /\ pc = "start"
    /\ geo_sections' = extract_geo_sections(Section, 10, 20)
    /\ total_rows' = Len(Jam)
    /\ number_batches' = ceil_div(Len(Jam), batch_size)
    /\ i' = 0
    /\ pc' = IF ceil_div(Len(Jam), batch_size) > 0 THEN "extract_geo_jams" ELSE "done"
    /\ UNCHANGED <<Jam, Section, batch_size, error, geo_jams, jams_per_section_contains,
                   ids_not_located_contains, jams_left_from_contains,
                   jams_per_section_within, ids_not_located_within,
                   jams_left_from_within, jams_per_section_intersects,
                   jams_per_section, JamPerSection>>

\* line 175: load and build the page; an exception leaves store_jps
ExtractGeoJams ==
    /\ pc = "extract_geo_jams"
    /\ \E ord \in Orderings(Jam) :
         LET r == extract_geo_jams(jams_query(Jam, ord, i * batch_size, batch_size), 20, 10)
         IN IF r.raised
            THEN /\ pc' = "aborted"
                 /\ error' = "extract_geo_jams"
                 /\ UNCHANGED geo_jams
            ELSE /\ pc' = "contains"
                 /\ geo_jams' = [rows |-> r.rows, geometry |-> r.geometry]
                 /\ UNCHANGED error
    /\ UNCHANGED <<Jam, Section, batch_size, geo_sections, total_rows, number_batches, i,
                   jams_per_section_contains, ids_not_located_contains,
                   jams_left_from_contains, jams_per_section_within,
                   ids_not_located_within, jams_left_from_within,
                   jams_per_section_intersects, jams_per_section, JamPerSection>>

\* lines 178-180
Contains ==
    /\ pc = "contains"
    /\ LET joined == sjoin(geo_jams, geo_sections, "left", "contains")
       IN /\ ids_not_located_contains' = ids_not_located(joined)
          /\ jams_per_section_contains' = dropna(joined)
    /\ pc' = "within"
    /\ UNCHANGED <<Jam, Section, batch_size, error, geo_sections, total_rows,
                   number_batches, i, geo_jams, jams_left_from_contains,
                   jams_per_section_within, ids_not_located_within,
                   jams_left_from_within, jams_per_section_intersects,
                   jams_per_section, JamPerSection>>

\* lines 183-190
Within ==
    /\ pc = "within"
    /\ jams_left_from_contains' =
          set_geometry(loc_isin(geo_jams, ids_not_located_contains), "jam_alt_LineString")
    /\ geo_sections' = set_geometry(geo_sections, "section_alt_LineString")
    /\ LET joined == sjoin(jams_left_from_contains', geo_sections', "left", "within")
       IN /\ ids_not_located_within' = ids_not_located(joined)
          /\ jams_per_section_within' = dropna(joined)
    /\ pc' = "intersects"
    /\ UNCHANGED <<Jam, Section, batch_size, error, total_rows, number_batches, i,
                   geo_jams, jams_per_section_contains, ids_not_located_contains,
                   jams_left_from_within, jams_per_section_intersects,
                   jams_per_section, JamPerSection>>

Intersects_stale ==
    /\ pc = "intersects"
    /\ jams_left_from_within' = loc_isin(geo_jams, ids_not_located_within)
    /\ jams_per_section_intersects' =
          sjoin(jams_left_from_within', geo_sections, "inner", "intersects")
    /\ pc' = "check_directions"
    /\ UNCHANGED <<Jam, Section, batch_size, error, geo_sections, total_rows,
                   number_batches, i, geo_jams, jams_per_section_contains,
                   ids_not_located_contains, jams_left_from_contains,
                   jams_per_section_within, ids_not_located_within,
                   jams_per_section, JamPerSection>>

\* lines 193-195
Intersects ==
    /\ pc = "intersects"
    /\ geo_sections' = set_geometry(geo_sections, "section_LineString")
    /\ jams_left_from_within' = loc_isin(geo_jams, ids_not_located_within)
    /\ jams_per_section_intersects' =
          sjoin(jams_left_from_within', geo_sections', "inner", "intersects")
    /\ pc' = "check_directions"
    /\ UNCHANGED <<Jam, Section, batch_size, error, total_rows, number_batches, i,
                   geo_jams, jams_per_section_contains, ids_not_located_contains,
                   jams_left_from_contains, jams_per_section_within,
                   ids_not_located_within, jams_per_section, JamPerSection>>

\* lines 196-198.  On a join without rows, apply(..., axis=1) returns an
\* empty frame instead of a column and the assignment of line 196 raises
\* ValueError: the exception leaves store_jps.
CheckDirections ==
    /\ pc = "check_directions"
    /\ IF jams_per_section_intersects = <<>>
       THEN /\ pc' = "aborted"
            /\ error' = "check_directions"
            /\ UNCHANGED jams_per_section_intersects
       ELSE /\ jams_per_section_intersects' =
                  SelectSeq(jams_per_section_intersects, check_directions)
            /\ pc' = "concat"
            /\ UNCHANGED error
    /\ UNCHANGED <<Jam, Section, batch_size, geo_sections, total_rows,
                   number_batches, i, geo_jams, jams_per_section_contains,
                   ids_not_located_contains, jams_left_from_contains,
                   jams_per_section_within, ids_not_located_within,
                   jams_left_from_within, jams_per_section, JamPerSection>>

\* lines 201-207
Concat ==
    /\ pc = "concat"
    /\ jams_per_section' = concat_columns(jams_per_section_contains,
                                          jams_per_section_within,
                                          jams_per_section_intersects)
    /\ pc' = "to_sql"
    /\ UNCHANGED <<Jam, Section, batch_size, error, geo_sections, total_rows,
                   number_batches, i, geo_jams, jams_per_section_contains,
                   ids_not_located_contains, jams_left_from_contains,
                   jams_per_section_within, ids_not_located_within,
                   jams_left_from_within, jams_per_section_intersects, JamPerSection>>

\* lines 208-211 and the loop header: the page's rows are appended in one
\* transaction and the loop goes on to the next page
ToSql ==
    /\ pc = "to_sql"
    /\ JamPerSection' = JamPerSection \o jams_per_section
    /\ i' = i + 1
    /\ pc' = IF i + 1 < number_batches THEN "extract_geo_jams" ELSE "done"
    /\ UNCHANGED <<Jam, Section, batch_size, error, geo_sections, total_rows,
                   number_batches, geo_jams, jams_per_section_contains,
                   ids_not_located_contains, jams_left_from_contains,
                   jams_per_section_within, ids_not_located_within,
                   jams_left_from_within, jams_per_section_intersects, jams_per_section>>

ToSqlRaises_swallowed ==
    /\ pc = "to_sql"
    /\ i' = i + 1
    /\ pc' = IF i + 1 < number_batches THEN "extract_geo_jams" ELSE "done"
    /\ error' = "to_sql"
    /\ UNCHANGED <<Jam, Section, batch_size, geo_sections, total_rows,
                   number_batches, geo_jams, jams_per_section_contains,
                   ids_not_located_contains, jams_left_from_contains,
                   jams_per_section_within, ids_not_located_within,
                   jams_left_from_within, jams_per_section_intersects,
                   jams_per_section, JamPerSection>>

\* line 208 raising: the transaction is rolled back, the exception leaves store_jps
ToSqlRaises ==
    /\ pc = "to_sql"
    /\ pc' = "aborted"
    /\ error' = "to_sql"
    /\ UNCHANGED <<Jam, Section, batch_size, geo_sections, total_rows,
                   number_batches, i, geo_jams, jams_per_section_contains,
                   ids_not_located_contains, jams_left_from_contains,
                   jams_per_section_within, ids_not_located_within,
                   jams_left_from_within, jams_per_section_intersects,
                   jams_per_section, JamPerSection>>

Next ==
    \/ LoadSections
    \/ ExtractGeoJams
    \/ Contains
    \/ Within
    \/ Intersects
    \/ CheckDirections
    \/ Concat
    \/ ToSql
    \/ ToSqlRaises

Spec == Init /\ [][Next]_vars

(***************************************************************************)
(* Claims.                                                                 *)
(***************************************************************************)
JamIds(rows) == {rows[k].JamId : k \in 1..Len(rows)}
Rows(seq) == {seq[k] : k \in 1..Len(seq)}
Accepted(joined) == {x \in Rows(joined) : x.SctnId # NaN}
ThinDistance == 10
FatDistance == 20

\* C1: within one page the tiers partition the jams: the pool of Tier B is
\* the page's jams with no Tier A match, the pool of Tier C is the part of
\* Tier B's pool with no Tier B match, and a tier only ever evaluates its pool.
C1_TierPartition ==
    /\ pc \in {"intersects", "check_directions", "concat", "to_sql"} =>
          /\ JamIds(jams_left_from_contains.rows) \subseteq JamIds(geo_jams.rows)
          /\ JamIds(jams_left_from_contains.rows) \cap
                {x.JamId : x \in Accepted(jams_per_section_contains)} = {}
          /\ JamIds(jams_per_section_within) \subseteq JamIds(jams_left_from_contains.rows)
    /\ pc \in {"check_directions", "concat", "to_sql"} =>
          /\ JamIds(jams_left_from_within.rows) \subseteq JamIds(jams_left_from_contains.rows)
          /\ JamIds(jams_left_from_within.rows) \cap
                {x.JamId : x \in Accepted(jams_per_section_contains)
                                 \cup Accepted(jams_per_section_within)} = {}
          /\ JamIds(jams_per_section_intersects) \subseteq JamIds(jams_left_from_within.rows)

\* A page where one jam is accepted against two sections in Tier A while
\* another jam goes through the pools of Tier B and Tier C.
C1_Witness ==
    /\ pc = "to_sql"
    /\ \E x, y \in Accepted(jams_per_section_contains) :
          x.JamId = y.JamId /\ x.SctnId # y.SctnId
    /\ jams_left_from_within.rows # <<>>

\* C2 as stated: a pair is in the Tier A result exactly when the jam's fat
\* polygon lies wholly inside the section's thin polygon.
C2_SectionContainsJam ==
    pc = "within" =>
       \A k \in 1..Len(geo_jams.rows), n \in 1..Len(geo_sections.rows) :
          LET j == geo_jams.rows[k]
              s == geo_sections.rows[n]
          IN (\E x \in Accepted(jams_per_section_contains) :
                 x.JamId = j.JamId /\ x.SctnId = s.SctnId)
             <=> /\ j.jam_LineString.distance = FatDistance
                 /\ s.section_LineString.distance = ThinDistance
                 /\ Inside(Metric(j.jam_LineString), Metric(s.section_LineString))

\* C2 amended: a pair is in the Tier A result exactly when the jam's fat
\* polygon (radius 20) contains the section's thin polygon (radius 10).
C2_JamContainsSection ==
    pc = "within" =>
       \A k \in 1..Len(geo_jams.rows), n \in 1..Len(geo_sections.rows) :
          LET j == geo_jams.rows[k]
              s == geo_sections.rows[n]
          IN (\E x \in Accepted(jams_per_section_contains) :
                 x.JamId = j.JamId /\ x.SctnId = s.SctnId)
             <=> /\ j.jam_LineString.distance = FatDistance
                 /\ s.section_LineString.distance = ThinDistance
                 /\ Inside(Metric(s.section_LineString), Metric(j.jam_LineString))

\* Tier A has run on a page with an accepted jam and an unmatched one.
C2_Witness ==
    /\ pc = "within"
    /\ Accepted(jams_per_section_contains) # {}
    /\ ids_not_located_contains # {}

\* C3: every pair Tier C keeps has the jam's MajorDirection equal to the
\* section's StreetDirection or to its SectionDirection.
C3_PerpendicularExclusion ==
    pc \in {"concat", "to_sql"} =>
       \A x \in Rows(jams_per_section_intersects) :
          \/ x.MajorDirection = x.StreetDirection
          \/ x.MajorDirection = x.SectionDirection

\* An East/West jam of Tier C's pool whose polygon intersects a section that
\* is North/South in both directions, and no row for the pair.
C3_Witness ==
    /\ pc = "concat"
    /\ \E k \in 1..Len(jams_left_from_within.rows), n \in 1..Len(geo_sections.rows) :
          LET j == jams_left_from_within.rows[k]
              s == geo_sections.rows[n]
          IN /\ j.MajorDirection = "Leste/Oeste"
             /\ s.StreetDirection = "Norte/Sul"
             /\ s.SectionDirection = "Norte/Sul"
             /\ Meets(Metric(j.jam_LineString), Metric(s.section_LineString))
             /\ ~ \E x \in Rows(jams_per_section_intersects) :
                     x.JamId = j.JamId /\ x.SctnId = s.SctnId

\* What lines 178-206 of store_jps compute for a page, as one function:
\* the rows to append, or raised when line 196 meets an empty Tier C join.
match_page(gj, gs) ==
    LET a == sjoin(gj, gs, "left", "contains")
        left_a == set_geometry(loc_isin(gj, ids_not_located(a)), "jam_alt_LineString")
        b == sjoin(left_a, set_geometry(gs, "section_alt_LineString"), "left", "within")
        left_b == loc_isin(gj, ids_not_located(b))
        c == sjoin(left_b, set_geometry(gs, "section_LineString"), "inner", "intersects")
    IN [raised |-> c = <<>>,
        rows |-> concat_columns(dropna(a), dropna(b), SelectSeq(c, check_directions))]

\* C4: a run that ends has persisted exactly the rows of a single page
\* holding all jams: none lost, none duplicated, whatever the page size.
C4_PaginationInvariance ==
    (pc = "done" /\ Jam # <<>>) =>
       LET page == extract_geo_jams(Jam, FatDistance, ThinDistance)
           one == match_page([rows |-> page.rows, geometry |-> page.geometry], geo_sections)
       IN /\ ~one.raised
          /\ Rows(JamPerSection) = Rows(one.rows)
          /\ Len(JamPerSection) = Len(one.rows)

\* The first/last-point rule of the DirectionClassifier, on the coordinates
\* the program holds: whole metres for a section, doubles for a jam.
FirstLastMajor(dx, dy) == IF Abs(dy) > Abs(dx) THEN "Norte/Sul" ELSE "Leste/Oeste"

JamFollowsFirstLast(j) ==
    LET l == j.JamDscCoordinatesLonLat.value
    IN j.MajorDirection =
          (IF CompareAbsDelta(l[1].y, l[Len(l)].y, l[1].x, l[Len(l)].x) > 0
           THEN "Norte/Sul" ELSE "Leste/Oeste")

\* C5 as stated: jams and sections are both classified by the first/last
\* rule (ties East/West, intermediate points irrelevant).
C5_FirstLastEverywhere ==
    /\ \A j \in Rows(geo_jams.rows) : JamFollowsFirstLast(j)
    /\ \A s \in Rows(geo_sections.rows) :
          LET l == s.Street_line_XY
          IN s.SectionDirection = FirstLastMajor(l[3][1] - l[1][1], l[3][2] - l[1][2])

\* C5 amended: a jam's MajorDirection follows the first/last rule on the
\* doubles of its first and last point: North/South exactly when the
\* computed abs(delta_y) exceeds the computed abs(delta_x), so it follows the
\* decimal coordinates whenever these do not tie, and a tie of the computed
\* differences gives East/West; a section's SectionDirection is North/South
\* exactly when the bounding box of its three points is at least as high as
\* it is wide (ties North/South).
C5_DirectionRules ==
    /\ \A j \in Rows(geo_jams.rows) :
          LET l == j.JamDscCoordinatesLonLat.value
              dx == l[Len(l)].x - l[1].x
              dy == l[Len(l)].y - l[1].y
          IN /\ JamFollowsFirstLast(j)
             /\ Abs(dy) # Abs(dx) => j.MajorDirection = FirstLastMajor(dx, dy)
    /\ \A s \in Rows(geo_sections.rows) :
          LET l == s.Street_line_XY
              w == Max3(l[1][1], l[2][1], l[3][1]) - Min3(l[1][1], l[2][1], l[3][1])
              h == Max3(l[1][2], l[2][2], l[3][2]) - Min3(l[1][2], l[2][2], l[3][2])
          IN s.SectionDirection = (IF h >= w THEN "Norte/Sul" ELSE "Leste/Oeste")

\* A loaded page with a jam whose first and last point are as far apart in
\* x as in y and whose computed differences tie (East/West), a three-point
\* jam whose decimal tie the doubles break (North/South), and a section
\* whose middle point decides its direction.
C5_Witness ==
    /\ \E j \in Rows(geo_jams.rows) :
          LET l == j.JamDscCoordinatesLonLat.value
          IN /\ Abs(l[Len(l)].y - l[1].y) = Abs(l[Len(l)].x - l[1].x)
             /\ l[Len(l)].y # l[1].y
             /\ CompareAbsDelta(l[1].y, l[Len(l)].y, l[1].x, l[Len(l)].x) = 0
             /\ j.MajorDirection = "Leste/Oeste"
    /\ \E j \in Rows(geo_jams.rows) :
          LET l == j.JamDscCoordinatesLonLat.value
          IN /\ Len(l) = 3
             /\ Abs(l[3].y - l[1].y) = Abs(l[3].x - l[1].x)
             /\ j.MajorDirection = "Norte/Sul"
    /\ \E s \in Rows(geo_sections.rows) :
          /\ s.Street_line_XY[3][2] = s.Street_line_XY[1][2]
          /\ s.SectionDirection = "Norte/Sul"

\* C6: a jam with fewer than 2 points is not fatal: building a page never
\* raises.
C6_DegenerateNotFatal == error # "extract_geo_jams"

\* C7: the page index only moves up by one and only in the step that appends
\* the page's rows; every other step leaves the output alone; to_sql raising
\* ends the run with the output untouched, and nothing runs after an abort.
C7_SequentialAbort ==
    [][ /\ pc # "aborted"
        /\ i' = i \/ i' = i + 1
        /\ i' = i + 1 => /\ pc = "to_sql"
                         /\ error' = "none"
                         /\ JamPerSection' = JamPerSection \o jams_per_section
        /\ i' = i => JamPerSection' = JamPerSection
        /\ (pc' = "extract_geo_jams" /\ pc # "start") => i' = i + 1
        /\ error' = "to_sql" => /\ pc = "to_sql"
                                /\ pc' = "aborted"
                                /\ JamPerSection' = JamPerSection ]_vars

\* to_sql raised on the second page: the first page's rows are in the output.
C7_Witness ==
    /\ pc = "aborted"
    /\ error = "to_sql"
    /\ i = 1
    /\ JamPerSection # <<>>
    /\ jams_per_section # <<>>

\* C8: every page the tiers have run on gets to the append (it is not
\* abandoned after the tiers), and the rows to append are the accepted pairs
\* of the three tiers in order, one row each with a section id; a pair has
\* as many rows as tiers accepted it, and a jam no tier accepted has none.
C8_RowsAreAcceptedPairs ==
    /\ error # "check_directions"
    /\ pc = "to_sql" =>
       LET all == jams_per_section_contains \o jams_per_section_within
                     \o jams_per_section_intersects
           sctn_ids == {s.SctnId : s \in Rows(geo_sections.rows)}
       IN /\ Len(jams_per_section) = Len(all)
          /\ \A k \in 1..Len(all) :
                /\ jams_per_section[k].JamDateStart = all[k].JamDateStart
                /\ jams_per_section[k].JamUuid = all[k].JamUuid
                /\ jams_per_section[k].SctnId = all[k].SctnId
                /\ jams_per_section[k].SctnId \in sctn_ids
          /\ \A j \in Rows(geo_jams.rows), s \in sctn_ids :
                Cardinality({k \in 1..Len(jams_per_section) :
                                /\ jams_per_section[k].JamUuid = j.JamUuid
                                /\ jams_per_section[k].SctnId = s})
                = Cardinality({k \in 1..Len(all) :
                                /\ all[k].JamId = j.JamId /\ all[k].SctnId = s})
          /\ \A j \in Rows(geo_jams.rows) :
                (~ \E x \in Rows(all) : x.JamId = j.JamId /\ x.SctnId # NaN)
                => ~ \E x \in Rows(jams_per_section) : x.JamUuid = j.JamUuid

\* C9: the pairs Tier C joins, before the direction filter, are exactly the
\* (jam of Tier C's pool, section) pairs whose thin polygons intersect.
C9_ThinThinCandidates ==
    pc = "check_directions" =>
       \A k \in 1..Len(jams_left_from_within.rows), n \in 1..Len(geo_sections.rows) :
          LET j == jams_left_from_within.rows[k]
              s == geo_sections.rows[n]
              thin == IF j.jam_LineString.distance = ThinDistance
                      THEN j.jam_LineString ELSE j.jam_alt_LineString
          IN (\E x \in Rows(jams_per_section_intersects) :
                 x.JamId = j.JamId /\ x.SctnId = s.SctnId)
             <=> Meets(Metric(thin), Metric(s.section_LineString))

\* C10: the section set is the one loaded before the loop, and every page
\* starts, and runs Tier A and Tier C, with the thin polygon active.
C10_SectionsFixed ==
    /\ pc # "start" => geo_sections.rows = extract_geo_sections(Section, ThinDistance, FatDistance).rows
    /\ pc \in {"extract_geo_jams", "contains", "within", "check_directions",
               "concat", "to_sql", "done"} =>
          geo_sections.geometry = "section_LineString"
    /\ pc = "intersects" => geo_sections.geometry = "section_alt_LineString"

\* The second page is about to be loaded.
C10_Witness ==
    /\ pc = "extract_geo_jams"
    /\ i >= 1
    /\ geo_sections.geometry = "section_LineString"

====
